---- MODULE Spec2Model ----
(***************************************************************************)
(* Model of OpenAIAgent.async_process (src/__init__.py): one conversation  *)
(* turn, from the lookup of the session history to the returned            *)
(* ConversationResult, with the provider call and the service call as the  *)
(* two suspension points of the coroutine.                                 *)
(*                                                                         *)
(* Text is a sequence of lexemes.  The punctuation of JSON ( { } , : " )   *)
(* is always a lexeme of its own, so that str.replace and json.loads act   *)
(* on it as they do on characters; a run of other characters is one        *)
(* lexeme.                                                                 *)
(***************************************************************************)
EXTENDS Integers, Sequences, FiniteSets, TLC

\* ------------------------------------------------------------------ bounds
\* turns started in one behaviour
MaxTurns == 2

\* ------------------------------------------------------------ text helpers
quote == "\""

Q(w) == <<quote, w, quote>>
KV(k, v) == Q(k) \o <<":">> \o v

\* s[i..] starts with the lexemes of p
StartsWithAt(s, i, p) ==
    /\ i + Len(p) - 1 <= Len(s)
    /\ \A k \in 1..Len(p) : s[i + k - 1] = p[k]

\* p occurs in s as a contiguous run (Python's `p in s`)
Contains(s, p) == \E i \in 1..(Len(s) + 1) : StartsWithAt(s, i, p)

\* str.replace(old, new): left to right, non-overlapping, every occurrence
RECURSIVE replace(_, _, _)
replace(s, old, new) ==
    IF s = <<>> THEN <<>>
    ELSE IF StartsWithAt(s, 1, old)
         THEN new \o replace(SubSeq(s, Len(old) + 1, Len(s)), old, new)
         ELSE <<Head(s)>> \o replace(Tail(s), old, new)

\* ------------------------------------------------------------- JSON values
\* every value has the same three fields: t the Python type, s the text of
\* a str (or the spelling of a literal), m the items of a dict in insertion
\* order
PyStr(s) == [t |-> "str", s |-> s, m |-> <<>>]
PyDict(m) == [t |-> "dict", s |-> <<>>, m |-> m]
PyLit(w) == [t |-> "lit", s |-> <<w>>, m |-> <<>>]
PyNone == PyLit("null")

Literals == {"null", "true", "false", "1"}

\* dict operations on the item sequence
HasKey(m, k) == \E i \in 1..Len(m) : m[i].k = k
GetItem(m, k) == m[CHOOSE i \in 1..Len(m) : m[i].k = k].v
SetItem(m, k, v) ==
    IF HasKey(m, k)
    THEN [i \in 1..Len(m) |-> IF m[i].k = k THEN [k |-> k, v |-> v] ELSE m[i]]
    ELSE Append(m, [k |-> k, v |-> v])
DelItem(m, k) == SelectSeq(m, LAMBDA it : it.k # k)

\* ------------------------------------------------------------- json.loads
ParseFail == [ok |-> FALSE, v |-> PyNone, n |-> 0]

\* a string literal starting at the quote s[i]: up to the next quote
scanstring(s, i) ==
    IF \E j \in (i + 1)..Len(s) : s[j] = quote
    THEN LET j == CHOOSE j \in (i + 1)..Len(s) :
                     /\ s[j] = quote
                     /\ \A k \in (i + 1)..(j - 1) : s[k] # quote
         IN [ok |-> TRUE, v |-> SubSeq(s, i + 1, j - 1), n |-> j + 1]
    ELSE [ok |-> FALSE, v |-> <<>>, n |-> 0]

RECURSIVE ParseValue(_, _), ParseMembers(_, _, _)

\* one JSON value starting at s[i]; n is the index after it
ParseValue(s, i) ==
    IF i > Len(s) THEN ParseFail
    ELSE IF s[i] = quote
         THEN LET r == scanstring(s, i)
              IN IF r.ok THEN [ok |-> TRUE, v |-> PyStr(r.v), n |-> r.n]
                 ELSE ParseFail
    ELSE IF s[i] = "{"
         THEN IF i + 1 <= Len(s) /\ s[i + 1] = "}"
              THEN [ok |-> TRUE, v |-> PyDict(<<>>), n |-> i + 2]
              ELSE ParseMembers(s, i + 1, <<>>)
    ELSE IF s[i] \in Literals
         THEN [ok |-> TRUE, v |-> PyLit(s[i]), n |-> i + 1]
    ELSE ParseFail

\* the members of an object from s[i] on, after "{" or ","; a member must
\* start with a string, so "{...,}" is an error
ParseMembers(s, i, acc) ==
    IF i > Len(s) \/ s[i] # quote THEN ParseFail
    ELSE LET key == scanstring(s, i)
         IN IF ~key.ok \/ key.n > Len(s) \/ s[key.n] # ":" THEN ParseFail
            ELSE LET val == ParseValue(s, key.n + 1)
                 IN IF ~val.ok \/ val.n > Len(s) THEN ParseFail
                    ELSE LET acc2 == SetItem(acc, key.v, val.v)
                         IN IF s[val.n] = "}"
                            THEN [ok |-> TRUE, v |-> PyDict(acc2), n |-> val.n + 1]
                            ELSE IF s[val.n] = ","
                                 THEN ParseMembers(s, val.n + 1, acc2)
                                 ELSE ParseFail

\* json.loads(s): one value and nothing after it, else JSONDecodeError
loads(s) ==
    LET r == ParseValue(s, 1)
    IN IF r.ok /\ r.n = Len(s) + 1 THEN [ok |-> TRUE, v |-> r.v]
       ELSE [ok |-> FALSE, v |-> PyNone]

\* ------------------------------------------------------------------- repr
RECURSIVE repr(_), reprItems(_)

\* the text an f-string puts in for a value inside a tuple
repr(v) ==
    IF v.t = "str" THEN <<"'">> \o v.s \o <<"'">>
    ELSE IF v.t = "dict" THEN <<"{">> \o reprItems(v.m) \o <<"}">>
    ELSE IF v.s = <<"null">> THEN <<"None">>
    ELSE IF v.s = <<"true">> THEN <<"True">>
    ELSE IF v.s = <<"false">> THEN <<"False">>
    ELSE v.s

reprItems(m) ==
    IF m = <<>> THEN <<>>
    ELSE <<"'">> \o m[1].k \o <<"'", ": ">> \o repr(m[1].v)
         \o (IF Len(m) > 1 THEN <<", ">> ELSE <<>>) \o reprItems(Tail(m))

\* -------------------------------------------------- literals of the source
InstructionSuffix == " Answer in syntactially perfect json and only json,"
GotIt == <<"{">> \o KV("comment", Q("Got it!")) \o <<"}">>

CONF_PROMPT == "CONF_PROMPT"
CONF_CHAT_MODEL == "CONF_CHAT_MODEL"
CONF_MAX_TOKENS == "CONF_MAX_TOKENS"
CONF_TOP_P == "CONF_TOP_P"
CONF_TEMPERATURE == "CONF_TEMPERATURE"

DEFAULT_PROMPT == <<"DEFAULT_PROMPT ", "{{ ha_name }}">>
DEFAULT_CHAT_MODEL == "DEFAULT_CHAT_MODEL"
DEFAULT_MAX_TOKENS == "DEFAULT_MAX_TOKENS"
DEFAULT_TOP_P == "DEFAULT_TOP_P"
DEFAULT_TEMPERATURE == "DEFAULT_TEMPERATURE"

\* ------------------------------------------------------- the environment
\* hass.config.location_name
location_name == "Home"

\* prompt templates an options flow can store: one that renders, one that
\* the template engine rejects (an unclosed expression)
CustomPrompt == <<"You are the voice of ", "{{ ha_name }}", ".">>
BrokenPrompt == <<"You are the voice of ", "{{ ha_name">>
PromptChoices == {CustomPrompt, BrokenPrompt}

\* user_input.text: what the user says in the first, second, ... turn
Texts == <<"hello", "turn on the lamp", "thanks", "good night">>
Utterance(n) == <<Texts[((n - 1) % Len(Texts)) + 1]>>

\* replies of the provider (result["choices"][0]["message"]["content"])
CommandFull ==
    <<"{">> \o KV("domain", Q("light")) \o <<",">> \o KV("service", Q("turn_on"))
    \o <<",">> \o KV("data", <<"{">> \o KV("entity_id", Q("lamp")) \o <<"}">>)
    \o <<"}">>
CommandNoData ==
    <<"{">> \o KV("domain", Q("light")) \o <<",">> \o KV("service", Q("turn_on"))
    \o <<"}">>

ReplyComment == <<"{">> \o KV("comment", Q("hi")) \o <<"}">>
ReplyCommand ==
    <<"{">> \o KV("comment", Q("hi")) \o <<",">> \o KV("command", CommandFull)
    \o <<"}">>
ReplyCommandTrailing ==
    <<"{">> \o KV("comment", Q("hi")) \o <<",">> \o KV("command", CommandFull)
    \o <<",", "}">>
ReplyCommandNotDict ==
    <<"{">> \o KV("comment", Q("hi")) \o <<",">> \o KV("command", Q("not a dict"))
    \o <<"}">>
ReplyCommandNoData ==
    <<"{">> \o KV("comment", Q("hi")) \o <<",">> \o KV("command", CommandNoData)
    \o <<"}">>
ReplyNotJson == <<"not", " ", "json">>
ReplyNoCommentTrailing == <<"{">> \o KV("note", Q("hi")) \o <<",", "}">>
ReplyCommaInText == <<"{">> \o KV("comment", <<quote, "a", ",", "}", "b", quote>>) \o <<"}">>

Replies ==
    { ReplyComment, ReplyCommand, ReplyCommandTrailing, ReplyCommandNotDict,
      ReplyCommandNoData, ReplyNotJson, ReplyNoCommentTrailing, ReplyCommaInText }

\* ------------------------------------------------------------------ state
VARIABLES
    history,    \* self.history: conversation id -> list of messages
    options,    \* self.entry.options: the keys that are set -> value
    task,       \* the coroutines of async_process, one per slot
    nextUlid,   \* number of the next id ulid.ulid() returns
    turns       \* turns started so far

vars == <<history, options, task, nextUlid, turns>>

\* the slots of the event loop: two turns can be in flight at a time
Tasks == {1, 2}

\* conversation ids: None, an id the caller made up, the ids of ulid.ulid()
None == <<"None", 0>>
CallerId == <<"caller", 0>>
ulid(n) == <<"ulid", n>>

Message(role, content) == [role |-> role, content |-> content]

\* dict.get(key, default)
get(d, k, default) == IF k \in DOMAIN d THEN d[k] ELSE default

NoRequest ==
    [model |-> "", messages |-> <<>>, max_tokens |-> "", top_p |-> "",
     temperature |-> "", user |-> None]
NoCall == [domain |-> PyNone, service |-> PyNone, data |-> PyNone]
NoResult ==
    [raised |-> "", speech |-> PyNone, error_code |-> "", conversation_id |-> None]

\* conversation.ConversationResult(response=intent_response, conversation_id)
\* after intent_response.async_set_speech(speech)
SpeechResult(speech, id) ==
    [raised |-> "", speech |-> speech, error_code |-> "", conversation_id |-> id]
\* ... after intent_response.async_set_error(UNKNOWN, message)
ErrorResult(message, id) ==
    [raised |-> "", speech |-> PyStr(message), error_code |-> "UNKNOWN",
     conversation_id |-> id]
\* an exception that leaves async_process
Raised(exc) ==
    [raised |-> exc, speech |-> PyNone, error_code |-> "", conversation_id |-> None]

\* a slot in which no turn has run
IdleTask ==
    [pc |-> "idle", text |-> <<>>, input_id |-> None, conversation_id |-> None,
     messages |-> <<>>, request |-> NoRequest, content |-> <<>>,
     response |-> <<>>, response_json |-> PyNone, comment |-> PyNone,
     call |-> NoCall, result |-> NoResult, outcome |-> "",
     renders |-> 0, acreates |-> 0, writes |-> 0, async_calls |-> 0]

Init ==
    /\ history = <<>>
    /\ options = <<>>
    /\ task = [t \in Tasks |-> IdleTask]
    /\ nextUlid = 1
    /\ turns = 0

\* ------------------------------------------------------- template render
\* template.Template(raw_prompt, hass).async_render({"ha_name": ...}): an
\* expression left open is a TemplateError, {{ ha_name }} is replaced
async_render(raw_prompt) ==
    IF \E i \in 1..Len(raw_prompt) : raw_prompt[i] = "{{ ha_name"
    THEN [ok |-> FALSE, v |-> <<"TemplateSyntaxError">>]
    ELSE [ok |-> TRUE,
          v |-> replace(raw_prompt, <<"{{ ha_name }}">>, <<location_name>>)]

_async_generate_prompt(raw_prompt) == async_render(raw_prompt)

\* -------------------------------------------------------------- the turn
\* SetHistory with the map replaced by one that holds this session only
SetHistory_alone(h, id, value) == [k \in {id} |-> value]

\* self.history[conversation_id] = value
SetHistory(h, id, value) ==
    [k \in DOMAIN h \cup {id} |-> IF k = id THEN value ELSE h[k]]

\* NewMessage with the role of the reply
NewMessage_asAssistant(text) ==
    Message("assistant", text \o <<InstructionSuffix>>)

\* lines 141-145
NewMessage(text) == Message("user", text \o <<InstructionSuffix>>)

\* SeedMessages without the assistant's acknowledgement
SeedMessages_unacknowledged(prompt, new_message) ==
    << Message("user", prompt), new_message >>

\* lines 164-168
SeedMessages(prompt, new_message) ==
    << Message("user", prompt), Message("assistant", GotIt), new_message >>

\* Request with the documented defaults in place of the stored options
Request_defaults(opts, messages, conversation_id) ==
    [model |-> DEFAULT_CHAT_MODEL,
     messages |-> messages,
     max_tokens |-> DEFAULT_MAX_TOKENS,
     top_p |-> DEFAULT_TOP_P,
     temperature |-> DEFAULT_TEMPERATURE,
     user |-> conversation_id]

\* lines 175-183: the arguments of openai.ChatCompletion.acreate
Request(opts, messages, conversation_id) ==
    [model |-> get(opts, CONF_CHAT_MODEL, DEFAULT_CHAT_MODEL),
     messages |-> messages,
     max_tokens |-> get(opts, CONF_MAX_TOKENS, DEFAULT_MAX_TOKENS),
     top_p |-> get(opts, CONF_TOP_P, DEFAULT_TOP_P),
     temperature |-> get(opts, CONF_TEMPERATURE, DEFAULT_TEMPERATURE),
     user |-> conversation_id]

\* WithNewMessage keeping only the seed and the last exchange of the stored
\* history
WithNewMessage_truncating(stored, new_message) ==
    (IF Len(stored) > 4
     THEN SubSeq(stored, 1, 2) \o SubSeq(stored, Len(stored) - 1, Len(stored))
     ELSE SubSeq(stored, 1, Len(stored) - 1))
    \o <<new_message>>

\* line 149: the stored history and the new message
WithNewMessage(stored, new_message) == stored \o <<new_message>>

\* TemplateFailed returning the id the caller presented
TemplateFailed_sameId(base, err, fresh) ==
    [base EXCEPT
       !.pc = "done",
       !.conversation_id = base.input_id,
       !.renders = 1,
       !.outcome = "template_error",
       !.result = ErrorResult(
           <<"Sorry, I had a problem with my template: ">> \o err, base.input_id)]

\* lines 154-163: the turn ends with the template error
TemplateFailed(base, err, fresh) ==
    [base EXCEPT
       !.pc = "done",
       !.conversation_id = fresh,
       !.renders = 1,
       !.outcome = "template_error",
       !.result = ErrorResult(
           <<"Sorry, I had a problem with my template: ">> \o err, fresh)]

\* Start with the template rendered at the top of every turn, a turn on a
\* session of the map included
Start_rendering(text, input_id, opts, hist, fresh) ==
    LET raw_prompt == get(opts, CONF_PROMPT, DEFAULT_PROMPT)
        new_message == NewMessage(text)
        base == [IdleTask EXCEPT !.text = text, !.input_id = input_id]
        prompt == _async_generate_prompt(raw_prompt)
        id == IF input_id \in DOMAIN hist THEN input_id ELSE fresh
    IN IF ~prompt.ok
       THEN TemplateFailed(base, prompt.v, id)
       ELSE LET messages == IF input_id \in DOMAIN hist
                            THEN WithNewMessage(hist[input_id], new_message)
                            ELSE SeedMessages(prompt.v, new_message)
            IN [base EXCEPT !.pc = "acreate",
                            !.conversation_id = id,
                            !.renders = 1,
                            !.messages = messages,
                            !.request = Request(opts, messages, id),
                            !.acreates = 1]

\* lines 136-183: from the call of async_process to the await of the
\* provider, or to the return of the template error
Start(text, input_id, opts, hist, fresh) ==
    LET raw_prompt == get(opts, CONF_PROMPT, DEFAULT_PROMPT)
        new_message == NewMessage(text)
        base == [IdleTask EXCEPT !.text = text, !.input_id = input_id]
    IN IF input_id \in DOMAIN hist
       THEN LET messages == WithNewMessage(hist[input_id], new_message)
            IN [base EXCEPT !.pc = "acreate",
                            !.conversation_id = input_id,
                            !.messages = messages,
                            !.request = Request(opts, messages, input_id),
                            !.acreates = 1]
       ELSE LET prompt == _async_generate_prompt(raw_prompt)
            IN IF ~prompt.ok
               THEN TemplateFailed(base, prompt.v, fresh)
               ELSE LET messages == SeedMessages(prompt.v, new_message)
                    IN [base EXCEPT !.pc = "acreate",
                                    !.conversation_id = fresh,
                                    !.renders = 1,
                                    !.messages = messages,
                                    !.request = Request(opts, messages, fresh),
                                    !.acreates = 1]

\* the ids a caller can present: none, one of its own, one it was given
KnownIds == {None, CallerId} \cup {ulid(n) : n \in 1..(nextUlid - 1)}

\* Begin with an id that is not in the map taken over as the id of the new
\* session
Begin_resuming(t, text, input_id) ==
    /\ task[t].pc = "idle"
    /\ \A u \in 1..(t - 1) : task[u].pc # "idle"
    /\ task' = [task EXCEPT ![t] =
          Start(text, input_id, options, history,
                IF input_id = None THEN ulid(nextUlid) ELSE input_id)]
    /\ nextUlid' = IF input_id \in DOMAIN history THEN nextUlid ELSE nextUlid + 1
    /\ turns' = turns + 1
    /\ UNCHANGED <<history, options>>

\* async_process(user_input) is called; the coroutine takes the first free
\* slot
Begin(t, text, input_id) ==
    /\ task[t].pc = "idle"
    /\ \A u \in 1..(t - 1) : task[u].pc # "idle"
    /\ task' = [task EXCEPT ![t] = Start(text, input_id, options, history, ulid(nextUlid))]
    /\ nextUlid' = IF input_id \in DOMAIN history THEN nextUlid ELSE nextUlid + 1
    /\ turns' = turns + 1
    /\ UNCHANGED <<history, options>>

\* AcreateRaises with the history written on the failure path
AcreateRaises_storing(t) ==
    /\ task[t].pc = "acreate"
    /\ history' = SetHistory(history, task[t].conversation_id, task[t].messages)
    /\ task' = [task EXCEPT ![t] =
          [@ EXCEPT !.pc = "done",
                    !.outcome = "provider_error",
                    !.result = ErrorResult(
                        <<"Sorry, I had a problem talking to OpenAI: ", "OpenAIError">>,
                        task[t].conversation_id)]]
    /\ UNCHANGED <<options, nextUlid, turns>>

\* lines 184-192: the provider call raises error.OpenAIError
AcreateRaises(t) ==
    /\ task[t].pc = "acreate"
    /\ task' = [task EXCEPT ![t] =
          [@ EXCEPT !.pc = "done",
                    !.outcome = "provider_error",
                    !.result = ErrorResult(
                        <<"Sorry, I had a problem talking to OpenAI: ", "OpenAIError">>,
                        task[t].conversation_id)]]
    /\ UNCHANGED <<history, options, nextUlid, turns>>

\* lines 200-204: the try block of the parse.  raised is the exception the
\* block ends with ("" when it ends normally); response is the variable
\* after line 201
Parse(content) ==
    LET response == replace(content, <<",", "}">>, <<"}">>)
        decoded == loads(response)
        failed(exc) == [raised |-> exc, response |-> response,
                        response_json |-> PyNone, comment |-> PyNone]
    IN IF ~decoded.ok THEN failed("JSONDecodeError")
       ELSE IF decoded.v.t # "dict" THEN failed("TypeError")
       ELSE IF ~HasKey(decoded.v.m, <<"comment">>) THEN failed("KeyError: 'comment'")
       ELSE [raised |-> "", response |-> response,
             response_json |-> PyDict(DelItem(decoded.v.m, <<"comment">>)),
             comment |-> GetItem(decoded.v.m, <<"comment">>)]

\* line 206
UnableToParse(response, err) ==
    <<"Unable to parse: ">> \o response
    \o <<"\nError: ", err, "\n", "Traceback (most recent call last): ...">>

\* IsCommand without the test of the type
IsCommand_anyType(response_json) == HasKey(response_json.m, <<"command">>)

\* lines 215-218: the guard of the service call
IsCommand(response_json) ==
    /\ HasKey(response_json.m, <<"command">>)
    /\ GetItem(response_json.m, <<"command">>).t = "dict"

\* lines 220-222 and 225-227: the first of the three subscripts of
\* response_json["command"] that raises KeyError, "" when none does
MissingKey(command) ==
    IF ~HasKey(command.m, <<"domain">>) THEN "KeyError: 'domain'"
    ELSE IF ~HasKey(command.m, <<"service">>) THEN "KeyError: 'service'"
    ELSE IF ~HasKey(command.m, <<"data">>) THEN "KeyError: 'data'"
    ELSE ""

\* UnableToExecute naming the domain and the service only
UnableToExecute_noData(command, err) ==
    <<"Unable to execute: ", "(">> \o repr(GetItem(command.m, <<"domain">>))
    \o <<", ">> \o repr(GetItem(command.m, <<"service">>))
    \o <<")", " \n Error: ", err, "\n", "Traceback (most recent call last): ...">>

\* lines 225-227
UnableToExecute(command, err) ==
    <<"Unable to execute: ", "(">> \o repr(GetItem(command.m, <<"domain">>))
    \o <<", ">> \o repr(GetItem(command.m, <<"service">>))
    \o <<", ">> \o repr(GetItem(command.m, <<"data">>))
    \o <<")", " \n Error: ", err, "\n", "Traceback (most recent call last): ...">>

\* lines 194-240 up to the await of the service call: the task after the
\* provider returned content
Completed(tk, content) ==
    LET p == Parse(content)
        stored == [tk EXCEPT !.content = content, !.response = p.response,
                             !.writes = @ + 1]
    IN IF p.raised # ""
       THEN [stored EXCEPT
               !.pc = "done",
               !.outcome = "parse_error",
               !.result = SpeechResult(PyStr(UnableToParse(p.response, p.raised)),
                                       tk.conversation_id)]
       ELSE LET parsed == [stored EXCEPT !.response_json = p.response_json,
                                         !.comment = p.comment]
            IN IF ~IsCommand(p.response_json)
               THEN [parsed EXCEPT
                       !.pc = "done",
                       !.outcome = "no_command",
                       !.result = SpeechResult(p.comment, tk.conversation_id)]
               ELSE LET command == GetItem(p.response_json.m, <<"command">>)
                    IN IF MissingKey(command) # ""
                       \* KeyError at 220-222, caught at 224, and raised
                       \* again by the f-string of 225-227, where no
                       \* handler is left
                       THEN [parsed EXCEPT
                               !.pc = "done",
                               !.outcome = "raised",
                               !.result = Raised(MissingKey(command))]
                       ELSE [parsed EXCEPT
                               !.pc = "async_call",
                               !.async_calls = @ + 1,
                               !.call = [domain |-> GetItem(command.m, <<"domain">>),
                                         service |-> GetItem(command.m, <<"service">>),
                                         data |-> GetItem(command.m, <<"data">>)]]

\* AcreateReturns with the history written after line 201, from the
\* repaired response
AcreateReturns_repaired(t, content) ==
    /\ task[t].pc = "acreate"
    /\ history' = SetHistory(history, task[t].conversation_id,
                             task[t].messages
                             \o <<Message("assistant", Parse(content).response)>>)
    /\ task' = [task EXCEPT ![t] = Completed(task[t], content)]
    /\ UNCHANGED <<options, nextUlid, turns>>

\* AcreateReturns with the exchange appended to the history stored at the
\* time of the write (a new session starts from the seed the turn built)
AcreateReturns_appending(t, content) ==
    /\ task[t].pc = "acreate"
    /\ history' = SetHistory(history, task[t].conversation_id,
                             (IF task[t].conversation_id \in DOMAIN history
                              THEN history[task[t].conversation_id]
                              ELSE SubSeq(task[t].messages, 1, 2))
                             \o << task[t].messages[Len(task[t].messages)],
                                   Message("assistant", content) >>)
    /\ task' = [task EXCEPT ![t] = Completed(task[t], content)]
    /\ UNCHANGED <<options, nextUlid, turns>>

\* AcreateReturns with the service called before the history is written:
\* a turn that reaches the service call has stored nothing yet
AcreateReturns_dispatchFirst(t, content) ==
    /\ task[t].pc = "acreate"
    /\ task' = [task EXCEPT ![t] = Completed(task[t], content)]
    /\ history' = IF task'[t].pc = "async_call"
                  THEN history
                  ELSE SetHistory(history, task[t].conversation_id,
                                  task[t].messages \o <<Message("assistant", content)>>)
    /\ UNCHANGED <<options, nextUlid, turns>>

\* lines 194-223: the provider call returns content
AcreateReturns(t, content) ==
    /\ task[t].pc = "acreate"
    /\ history' = SetHistory(history, task[t].conversation_id,
                             task[t].messages \o <<Message("assistant", content)>>)
    /\ task' = [task EXCEPT ![t] = Completed(task[t], content)]
    /\ UNCHANGED <<options, nextUlid, turns>>

\* AsyncCallReturns with the history written a second time, after the
\* service call
AsyncCallReturns_storing(t) ==
    /\ task[t].pc = "async_call"
    /\ history' = SetHistory(history, task[t].conversation_id,
                             task[t].messages
                             \o <<Message("assistant", task[t].response)>>)
    /\ task' = [task EXCEPT ![t] =
          [@ EXCEPT !.pc = "done",
                    !.outcome = "dispatched",
                    !.writes = @ + 1,
                    !.result = SpeechResult(task[t].comment, task[t].conversation_id)]]
    /\ UNCHANGED <<options, nextUlid, turns>>

\* lines 235-240: the service call returns
AsyncCallReturns(t) ==
    /\ task[t].pc = "async_call"
    /\ task' = [task EXCEPT ![t] =
          [@ EXCEPT !.pc = "done",
                    !.outcome = "dispatched",
                    !.result = SpeechResult(task[t].comment, task[t].conversation_id)]]
    /\ UNCHANGED <<history, options, nextUlid, turns>>

\* lines 224-233: the service call raises
AsyncCallRaises(t) ==
    /\ task[t].pc = "async_call"
    /\ task' = [task EXCEPT ![t] =
          [@ EXCEPT !.pc = "done",
                    !.outcome = "dispatch_error",
                    !.result = SpeechResult(
                        PyStr(UnableToExecute(
                            GetItem(task[t].response_json.m, <<"command">>),
                            "ServiceNotFound")),
                        task[t].conversation_id)]]
    /\ UNCHANGED <<history, options, nextUlid, turns>>

\* the caller takes the result of the turn (or its exception); the
\* coroutine is gone
Return(t) ==
    /\ task[t].pc = "done"
    /\ task' = [task EXCEPT ![t] = IdleTask]
    /\ UNCHANGED <<history, options, nextUlid, turns>>

\* the options flow of the host stores a value in self.entry.options
UpdateOptions(k, v) ==
    /\ k \in DOMAIN options => options[k] # v
    /\ options' = [x \in DOMAIN options \cup {k} |-> IF x = k THEN v ELSE options[x]]
    /\ UNCHANGED <<history, task, nextUlid, turns>>

Next ==
    \/ turns < MaxTurns
       /\ \E t \in Tasks, id \in KnownIds : Begin(t, Utterance(turns + 1), id)
    \/ \E t \in Tasks : AcreateRaises(t)
    \/ \E t \in Tasks, content \in Replies : AcreateReturns(t, content)
    \/ \E t \in Tasks : AsyncCallReturns(t)
    \/ \E t \in Tasks : AsyncCallRaises(t)
    \/ \E t \in Tasks : Return(t)
    \/ \E v \in PromptChoices : UpdateOptions(CONF_PROMPT, v)

Spec == Init /\ [][Next]_vars

\* ================================================================ claims
\* steps of a turn, read off a pair of states
Begins(t) == task[t].pc = "idle" /\ task'[t].pc # "idle"
ProviderFails(t) == task[t].pc = "acreate" /\ task'[t].outcome = "provider_error"
ProviderReturns(t) ==
    /\ task[t].pc = "acreate"
    /\ task'[t].pc \in {"done", "async_call"}
    /\ task'[t].outcome # "provider_error"
DispatchFails(t) == task[t].pc = "async_call" /\ task'[t].outcome = "dispatch_error"

\* the trailing-comma repair and the decoding of a reply, from the library
\* operators alone
Repaired(content) == replace(content, <<",", "}">>, <<"}">>)
ParsesOk(content) ==
    LET d == loads(Repaired(content))
    IN d.ok /\ d.v.t = "dict" /\ HasKey(d.v.m, <<"comment">>)

\* C1: every turn ends by returning a result with a speech string and a
\* session id, never by an exception reaching the caller, whatever the
\* outcome of rendering, provider call, parsing and dispatch -- a command
\* mapping that lacks domain, service or data included.
C1_AlwaysAResult ==
    \A t \in Tasks :
        task[t].pc = "done" =>
            /\ task[t].result.raised = ""
            /\ task[t].result.speech.t = "str"
            /\ task[t].result.conversation_id # None

\* C2: a turn whose provider call fails leaves the whole history map
\* unchanged, both when it starts and when the failure is handled (no entry
\* for a new session, no message for an existing one), and returns the
\* provider-error speech with the session id.
C2_ProviderFailureKeepsHistory ==
    /\ [][\A t \in Tasks :
            /\ Begins(t) => history' = history
            /\ ProviderFails(t) =>
                  /\ history' = history
                  /\ task'[t].pc = "done"
                  /\ task'[t].result.raised = ""
                  /\ task'[t].result.error_code = "UNKNOWN"
                  /\ StartsWithAt(task'[t].result.speech.s, 1,
                                  <<"Sorry, I had a problem talking to OpenAI: ">>)
                  /\ task'[t].result.conversation_id = task[t].request.user]_vars
    /\ [](\A t \in Tasks : task[t].outcome = "provider_error" => task[t].writes = 0)

\* a provider failure on a session that is in the map
C2_Witness ==
    \E t \in Tasks :
        /\ task[t].outcome = "provider_error"
        /\ task[t].input_id \in DOMAIN history

\* C3: a turn whose reply fails to parse stores the turn's user message
\* followed by the reply as the provider returned it, before the repair of
\* the trailing comma; the next turn on that session sends a message list
\* that holds this raw reply, at the place where it is stored.
C3_ParseFailureStoresRaw ==
    [][\A t \in Tasks :
          /\ (ProviderReturns(t) /\ task'[t].outcome = "parse_error") =>
                LET id == task[t].conversation_id
                IN /\ id \in DOMAIN history'
                   /\ history'[id] =
                         task[t].request.messages
                         \o <<Message("assistant", task'[t].content)>>
                   /\ history'[id][Len(history'[id]) - 1] =
                         Message("user", task[t].text \o <<InstructionSuffix>>)
          /\ (Begins(t) /\ task'[t].input_id \in DOMAIN history) =>
                LET h == history[task'[t].input_id]
                IN \A k \in 1..Len(h) :
                      (h[k].role = "assistant" /\ ~ParsesOk(h[k].content)) =>
                          /\ task'[t].pc = "acreate"
                          /\ k <= Len(task'[t].request.messages)
                          /\ task'[t].request.messages[k] = h[k]]_vars

\* a turn in flight whose message list holds an unparsable reply that the
\* repair would have changed
C3_Witness ==
    \E t \in Tasks :
        /\ task[t].pc = "acreate"
        /\ \E k \in 1..Len(task[t].request.messages) :
              LET m == task[t].request.messages[k]
              IN /\ m.role = "assistant"
                 /\ ~ParsesOk(m.content)
                 /\ Repaired(m.content) # m.content

\* C4: every turn whose provider call succeeds writes the history of its
\* session exactly once, to the message list it sent followed by the raw
\* reply, whatever follows (parse failure, no command, dispatch success or
\* failure); a turn that ends before the provider call succeeds never
\* writes, and no other step changes the history map.
C4_OneHistoryWrite ==
    /\ [][/\ \A t \in Tasks :
                ProviderReturns(t) =>
                    /\ history' =
                          SetHistory(history, task[t].request.user,
                                     task[t].request.messages
                                     \o <<Message("assistant", task'[t].content)>>)
                    /\ task'[t].writes = task[t].writes + 1
          /\ (\A t \in Tasks : ~ProviderReturns(t)) => history' = history
          /\ \A t \in Tasks :
                (task[t].pc # "idle" /\ task'[t].pc # "idle" /\ ~ProviderReturns(t))
                    => task'[t].writes = task[t].writes]_vars
    /\ [](\A t \in Tasks :
            /\ task[t].pc \in {"idle", "acreate"} => task[t].writes = 0
            /\ task[t].pc = "async_call" => task[t].writes = 1
            /\ task[t].pc = "done" =>
                  task[t].writes =
                      IF task[t].outcome \in {"template_error", "provider_error"}
                      THEN 0 ELSE 1)

\* a turn that wrote once and then saw its service call fail
C4_Witness ==
    \E t \in Tasks :
        /\ task[t].pc = "done"
        /\ task[t].outcome = "dispatch_error"
        /\ task[t].writes = 1

\* C5: the message list a turn builds for a session id that is in the map
\* is the history stored for it at that moment, every message in place,
\* followed by exactly one user message: the user text and the instruction
\* suffix.
C5_KnownSessionPrefix ==
    [][\A t \in Tasks :
          (Begins(t) /\ task'[t].input_id \in DOMAIN history) =>
              LET h == history[task'[t].input_id]
                  sent == task'[t].request.messages
              IN /\ task'[t].pc = "acreate"
                 /\ Len(sent) = Len(h) + 1
                 /\ \A k \in 1..Len(h) : sent[k] = h[k]
                 /\ sent[Len(sent)].role = "user"
                 /\ sent[Len(sent)].content =
                       Utterance(turns + 1) \o <<InstructionSuffix>>]_vars

\* a turn in flight on a session whose history already held a whole
\* exchange after the seed
C5_Witness ==
    \E t \in Tasks :
        /\ task[t].pc = "acreate"
        /\ task[t].input_id = task[t].conversation_id
        /\ Len(task[t].request.messages) >= 5

\* the prompts the template engine can produce from the stored templates
RenderedPrompts ==
    { <<"DEFAULT_PROMPT ", location_name>>,
      <<"You are the voice of ", location_name, ".">> }

\* C6: a turn whose session id is absent or not in the map sends exactly
\* three messages: user with the rendered prompt, assistant with
\* {"comment":"Got it!"}, user with the text and the suffix; every stored
\* history begins with that seed.
C6_NewSessionSeed ==
    /\ [][\A t \in Tasks :
            (Begins(t) /\ task'[t].input_id \notin DOMAIN history
                       /\ task'[t].pc = "acreate") =>
                LET sent == task'[t].request.messages
                IN /\ Len(sent) = 3
                   /\ sent[1].role = "user"
                   /\ sent[1].content \in RenderedPrompts
                   /\ sent[2] = [role |-> "assistant",
                                 content |-> <<"{", quote, "comment", quote, ":",
                                               quote, "Got it!", quote, "}">>]
                   /\ sent[3] = [role |-> "user",
                                 content |-> Utterance(turns + 1)
                                             \o <<InstructionSuffix>>]]_vars
    /\ [](\A id \in DOMAIN history :
            LET h == history[id]
            IN /\ Len(h) >= 4
               /\ h[1].role = "user" /\ h[1].content \in RenderedPrompts
               /\ h[2] = [role |-> "assistant",
                          content |-> <<"{", quote, "comment", quote, ":",
                                        quote, "Got it!", quote, "}">>]
               /\ h[3].role = "user"
               /\ h[3].content[Len(h[3].content)] = InstructionSuffix)

\* a new session started with an id the caller made up, under a custom
\* prompt
C6_Witness ==
    \E t \in Tasks :
        /\ task[t].pc = "acreate"
        /\ task[t].input_id = CallerId
        /\ task[t].request.messages[1].content
              = <<"You are the voice of ", location_name, ".">>

\* C7: when the template fails to render, the turn ends with the
\* template-error speech and an id generated in this turn, neither the
\* provider nor the service registry is called, and the history map is
\* unchanged.
C7_RenderFailure ==
    [][\A t \in Tasks :
          (Begins(t) /\ task'[t].outcome = "template_error") =>
              /\ task'[t].pc = "done"
              /\ history' = history
              /\ task'[t].result.raised = ""
              /\ task'[t].result.error_code = "UNKNOWN"
              /\ StartsWithAt(task'[t].result.speech.s, 1,
                              <<"Sorry, I had a problem with my template: ">>)
              /\ task'[t].result.conversation_id \notin KnownIds
              /\ task'[t].result.conversation_id \notin DOMAIN history'
              /\ task'[t].result.conversation_id[1] = "ulid"
              /\ task'[t].acreates = 0
              /\ task'[t].async_calls = 0]_vars

\* a render failure of a turn that presented an id of an earlier turn
C7_Witness ==
    \E t \in Tasks :
        /\ task[t].outcome = "template_error"
        /\ task[t].input_id[1] = "ulid"

\* what the decoding of each reply gives, from the library operators alone:
\* whether it parses to an object with a comment, the comment, the value of
\* the key command (None when there is none)
Decoding ==
    [content \in Replies |->
        LET d == loads(Repaired(content))
            ok == d.ok /\ d.v.t = "dict" /\ HasKey(d.v.m, <<"comment">>)
        IN [parses |-> ok,
            comment |-> IF ok THEN GetItem(d.v.m, <<"comment">>) ELSE PyNone,
            command |-> IF ok /\ HasKey(d.v.m, <<"command">>)
                        THEN GetItem(d.v.m, <<"command">>) ELSE PyNone]]
CommandIn(content) == Decoding[content].command
CommentIn(content) == Decoding[content].comment
HasMapping(content) == CommandIn(content).t = "dict"
HasFullMapping(content) ==
    /\ HasMapping(content)
    /\ \A k \in {"domain", "service", "data"} : HasKey(CommandIn(content).m, <<k>>)

\* the turns that are past a successful provider call
Replied(t) == task[t].pc \in {"async_call", "done"} /\ task[t].writes = 1

C9_DispatchFailureSpeech ==
    [][\A t \in Tasks :
          DispatchFails(t) =>
              LET command == CommandIn(task[t].content)
                  domain == GetItem(command.m, <<"domain">>)
                  service == GetItem(command.m, <<"service">>)
                  data == GetItem(command.m, <<"data">>)
                  speech == task'[t].result.speech
              IN /\ task'[t].pc = "done"
                 /\ task'[t].result.raised = ""
                 /\ task[t].call = [domain |-> domain, service |-> service,
                                    data |-> data]
                 /\ speech.t = "str"
                 /\ Contains(speech.s, repr(domain))
                 /\ Contains(speech.s, repr(service))
                 /\ Contains(speech.s, repr(data))
                 /\ Contains(speech.s, <<"ServiceNotFound">>)
                 /\ history' = history
                 /\ task'[t].writes = 1]_vars

\* a failed service call for a command that parsed only after the repair
C9_Witness ==
    \E t \in Tasks :
        /\ task[t].outcome = "dispatch_error"
        /\ Repaired(task[t].content) # task[t].content
        /\ task[t].call.data.m # <<>>

\* C10: for every reply that fails to parse, the speech of the turn holds
\* the reply verbatim, as the provider returned it.
C10_SpeechHoldsRawReply ==
    \A t \in Tasks :
        task[t].outcome = "parse_error" =>
            /\ task[t].result.speech.t = "str"
            /\ Contains(task[t].result.speech.s, task[t].content)

\* ------------------------------------------------- the parse on its own
\* replies that are JSON objects with a comment, written with and without
\* a comma before a closing brace: the comment text, the command (none, or
\* a mapping with domain, service and data, before or after the comment)
\* and a trailing comma in the data, the command and the reply
CommentTexts == { <<"hi">>, <<"a", ",", "}", "b">>, <<"done", "}">> }
Comma(b) == IF b THEN <<",">> ELSE <<>>
DataText(dtr) ==
    <<"{">> \o KV("entity_id", Q("lamp")) \o Comma(dtr) \o <<"}">>
CommandText(dtr, ctr) ==
    <<"{">> \o KV("domain", Q("light")) \o <<",">> \o KV("service", Q("turn_on"))
    \o <<",">> \o KV("data", DataText(dtr)) \o Comma(ctr) \o <<"}">>
ReplyText(comment, shape, dtr, ctr, otr) ==
    LET cm == KV("comment", <<quote>> \o comment \o <<quote>>)
        cd == KV("command", CommandText(dtr, ctr))
    IN <<"{">>
       \o (CASE shape = "comment" -> cm
             [] shape = "comment, command" -> cm \o <<",">> \o cd
             [] shape = "command, comment" -> cd \o <<",">> \o cm)
       \o Comma(otr) \o <<"}">>

\* each reply (raw) with the same reply written without the trailing commas
\* (clean), which is valid JSON
ParseCases ==
    { [raw |-> ReplyText(c, sh, dtr, ctr, otr),
       clean |-> ReplyText(c, sh, FALSE, FALSE, FALSE),
       trailing |-> otr \/ (sh # "comment" /\ (dtr \/ ctr))] :
        c \in CommentTexts,
        sh \in {"comment", "comment, command", "command, comment"},
        dtr \in BOOLEAN, ctr \in BOOLEAN, otr \in BOOLEAN }

\* one turn of a new session whose reply is drawn from ParseCases
NextParse ==
    \/ turns = 0 /\ Begin(1, Utterance(1), None)
    \/ \E c \in ParseCases : AcreateReturns(1, c.raw)
    \/ AsyncCallReturns(1)
    \/ AsyncCallRaises(1)
    \/ Return(1)

SpecParse == Init /\ [][NextParse]_vars

\* C11: the one repair before decoding removes a comma that stands right
\* before a closing brace, so a reply that is a valid JSON object with a
\* comment but for such commas parses, and the comment and the command it
\* yields are those of the reply written without them.
C11_RepairKeepsContent ==
    \A t \in Tasks :
        Replied(t) =>
            \A c \in ParseCases :
                (c.trailing /\ c.raw = task[t].content) =>
                    LET d == loads(c.clean).v.m
                    IN /\ task[t].outcome # "parse_error"
                       /\ task[t].comment = GetItem(d, <<"comment">>)
                       /\ task[t].response_json = PyDict(DelItem(d, <<"comment">>))

\* ------------------------------------------- turns on an existing session
\* three turns, so that two of them can be in flight on a session that an
\* earlier one created; the replies are one of each kind (a comment, a
\* command, a text that does not parse) and the options stay as they are
MaxRaceTurns == 3
RaceReplies == {ReplyComment, ReplyCommand, ReplyNotJson}

NextRace ==
    \/ turns < MaxRaceTurns
       /\ \E t \in Tasks, id \in KnownIds : Begin(t, Utterance(turns + 1), id)
    \/ \E t \in Tasks : AcreateRaises(t)
    \/ \E t \in Tasks, content \in RaceReplies : AcreateReturns(t, content)
    \/ \E t \in Tasks : AsyncCallReturns(t)
    \/ \E t \in Tasks : AsyncCallRaises(t)
    \/ \E t \in Tasks : Return(t)

SpecRace == Init /\ [][NextRace]_vars

\* the turns between their first and their last step
InFlight(t) == task[t].pc \in {"acreate", "async_call"}

\* the messages a turn sent, without its new user message: the history it
\* read when it began
ReadHistory(t) ==
    SubSeq(task[t].request.messages, 1, Len(task[t].request.messages) - 1)

\* the stored history of the session of turn t is the one the turn read
\* (nothing is stored for a session the turn created)
Undisturbed(t) ==
    IF task[t].input_id = task[t].conversation_id
    THEN /\ task[t].conversation_id \in DOMAIN history
         /\ history[task[t].conversation_id] = ReadHistory(t)
    ELSE task[t].conversation_id \notin DOMAIN history

\* C12: turns in flight at the same time on different session ids do not
\* interfere.  A step of another turn, on another session, changes neither
\* the locals of a turn in flight nor what is stored for its session, so
\* the turn stays undisturbed; and an undisturbed turn whose provider call
\* returns stores what it would store if it ran alone: the history it read
\* (or the seed), its user message, the raw reply.
C12_OtherSessionsDoNotInterfere ==
    [][\A t \in Tasks :
          LET id == task[t].conversation_id
          IN /\ \A u \in Tasks \ {t} :
                    ( /\ InFlight(t)
                      /\ task'[u] # task[u]
                      /\ task[u].conversation_id # id
                      /\ task'[u].conversation_id # id ) =>
                        /\ task'[t] = task[t]
                        /\ (id \in DOMAIN history') = (id \in DOMAIN history)
                        /\ id \in DOMAIN history => history'[id] = history[id]
                        /\ DOMAIN history \subseteq DOMAIN history'
                        /\ Undisturbed(t) => Undisturbed(t)'
             /\ (ProviderReturns(t) /\ Undisturbed(t)) =>
                    /\ id \in DOMAIN history'
                    /\ history'[id] =
                          (IF id \in DOMAIN history
                           THEN history[id]
                           ELSE SubSeq(task[t].request.messages, 1, 2))
                          \o << Message("user", task[t].text \o <<InstructionSuffix>>),
                                Message("assistant", task'[t].content) >>
                    /\ \A other \in DOMAIN history \ {id} :
                          other \in DOMAIN history' /\ history'[other] = history[other]]_vars

\* two turns in flight on two sessions, one of which has stored its
\* exchange while the other still waits for the provider
C12_Witness ==
    /\ task[1].pc = "acreate"
    /\ task[2].pc = "async_call"
    /\ task[1].conversation_id # task[2].conversation_id
    /\ task[2].conversation_id \in DOMAIN history
    /\ task[1].input_id = task[1].conversation_id
    /\ Undisturbed(1)

\* the user message and the reply of a turn whose provider call returned
Exchange(t) ==
    << task[t].messages[Len(task[t].messages)],
       Message("assistant", task[t].content) >>

\* turns t and u both ran on the same known session, both read the same
\* stored history, and the provider call of each has returned
Raced(t, u) ==
    /\ t # u
    /\ Replied(t) /\ Replied(u)
    /\ task[t].input_id = task[t].conversation_id
    /\ task[u].input_id = task[u].conversation_id
    /\ task[t].conversation_id = task[u].conversation_id
    /\ ReadHistory(t) = ReadHistory(u)

\* C13: two turns in flight at the same time on the same known session id
\* are unguarded.  When both provider calls have succeeded the stored
\* history is the history both read followed by the exchange of one turn
\* only, the one that wrote last; it is the result of neither serial order,
\* which would hold both exchanges.
C13_SameSessionRaceLosesAnExchange ==
    \A t \in Tasks : \A u \in Tasks :
        Raced(t, u) =>
            LET id == task[t].conversation_id
                h == ReadHistory(t)
            IN /\ id \in DOMAIN history
               /\ history[id] \in {h \o Exchange(t), h \o Exchange(u)}
               /\ history[id] # h \o Exchange(t) \o Exchange(u)
               /\ history[id] # h \o Exchange(u) \o Exchange(t)

\* both turns have written and the exchange of the first is gone
C13_Witness ==
    /\ Raced(1, 2)
    /\ Exchange(1) # Exchange(2)
    /\ history[task[1].conversation_id] = ReadHistory(1) \o Exchange(2)

\* C14: a session id is generated once and stays stable.  A turn that
\* begins with an id that is in the history map runs under that id, a turn
\* that begins with no id or an id not in the map runs under a new id that
\* is no key of the map; the id does not change while the turn runs; and
\* the turn, whatever its path, ends with a result that carries that id.
C14_SessionIdStable ==
    [][\A t \in Tasks :
          /\ Begins(t) =>
                IF task'[t].input_id \in DOMAIN history
                THEN task'[t].conversation_id = task'[t].input_id
                ELSE /\ task'[t].conversation_id = ulid(nextUlid)
                     /\ task'[t].conversation_id \notin DOMAIN history
                     /\ \A u \in Tasks \ {t} :
                           task[u].pc # "idle" =>
                               task[u].conversation_id # task'[t].conversation_id
          /\ (task[t].pc # "idle" /\ task'[t].pc # "idle") =>
                task'[t].conversation_id = task[t].conversation_id
          /\ task'[t].pc = "done" =>
                /\ task'[t].result.raised = ""
                /\ task'[t].result.conversation_id = task'[t].conversation_id]_vars

\* ------------------------------------------------ live reconfiguration
\* one slot, a few turns, and an options flow that can store a value under
\* each of the five keys at any time, a turn in flight or not
MaxOptionTurns == 2
OptionKeys ==
    {CONF_PROMPT, CONF_CHAT_MODEL, CONF_MAX_TOKENS, CONF_TOP_P, CONF_TEMPERATURE}
OptionChoices(k) ==
    CASE k = CONF_PROMPT -> PromptChoices
      [] k = CONF_CHAT_MODEL -> {"gpt-4", "gpt-3.5-turbo-16k"}
      [] k = CONF_MAX_TOKENS -> {"300"}
      [] k = CONF_TOP_P -> {"0.5"}
      [] k = CONF_TEMPERATURE -> {"0.2"}

NextOptions ==
    \/ turns < MaxOptionTurns
       /\ \E id \in KnownIds : Begin(1, Utterance(turns + 1), id)
    \/ AcreateRaises(1)
    \/ AcreateReturns(1, ReplyComment)
    \/ Return(1)
    \/ \E k \in OptionKeys : \E v \in OptionChoices(k) : UpdateOptions(k, v)

SpecOptions == Init /\ [][NextOptions]_vars

\* the value the options hold under key k, or the default
Configured(k, default) == IF k \in DOMAIN options THEN options[k] ELSE default

\* C15: the model, max_tokens, top_p, temperature and prompt template of a
\* turn are the configured values at the start of that turn, or the
\* defaults when unset.  The request a turn begins with carries the four
\* values the options hold at that moment; a turn on a new session sends
\* as its first message the rendering of the template held at that moment
\* (and fails if that template does not render); and the request stays as
\* it is whatever the options flow stores while the turn is in flight.
C15_OptionsReadPerTurn ==
    [][\A t \in Tasks :
          /\ (Begins(t) /\ task'[t].pc = "acreate") =>
                LET r == task'[t].request
                IN /\ r.model = Configured(CONF_CHAT_MODEL, DEFAULT_CHAT_MODEL)
                   /\ r.max_tokens = Configured(CONF_MAX_TOKENS, DEFAULT_MAX_TOKENS)
                   /\ r.top_p = Configured(CONF_TOP_P, DEFAULT_TOP_P)
                   /\ r.temperature = Configured(CONF_TEMPERATURE, DEFAULT_TEMPERATURE)
          /\ (Begins(t) /\ task'[t].input_id \notin DOMAIN history) =>
                LET prompt == async_render(Configured(CONF_PROMPT, DEFAULT_PROMPT))
                IN IF prompt.ok
                   THEN /\ task'[t].pc = "acreate"
                        /\ task'[t].request.messages[1] = Message("user", prompt.v)
                   ELSE task'[t].outcome = "template_error"
          /\ (task[t].pc = "acreate" /\ options' # options) =>
                task'[t].request = task[t].request]_vars

\* a second turn is at the provider with a model and a template stored after
\* the first turn, which ran with the defaults, wrote its history
C15_Witness ==
    /\ turns = 2
    /\ task[1].pc = "acreate"
    /\ task[1].request.model = "gpt-4"
    /\ task[1].request.max_tokens = "300"
    /\ task[1].request.messages[1].content = <<"You are the voice of ", location_name, ".">>
    /\ \E id \in DOMAIN history :
          history[id][1].content = <<"DEFAULT_PROMPT ", location_name>>

\* C16: within one turn the steps occur in a fixed order.  The provider,
\* the history write and the service registry are each used at most once
\* in a turn; the provider is called with the whole message list the turn
\* built and with user equal to the session id of the turn, which is the id
\* of the result the turn returns; the history is written only by the step
\* in which the provider call returns content; and when the service call
\* starts the history of the session already holds the turn's messages and
\* the reply, and is not written while the call is pending or afterwards.
C16_StepOrder ==
    [][\A t \in Tasks :
          LET now == task[t]
              next == task'[t]
          IN /\ next.acreates <= 1 /\ next.writes <= 1 /\ next.async_calls <= 1
             /\ next.acreates > now.acreates =>
                   /\ now.pc = "idle"
                   /\ next.request.messages = next.messages
                   /\ next.messages[Len(next.messages)] = NewMessage(next.text)
                   /\ next.request.user = next.conversation_id
                   /\ next.writes = 0 /\ next.async_calls = 0
             /\ (next.pc = "done" /\ next.acreates = 1 /\ next.result.raised = "") =>
                   next.result.conversation_id = next.request.user
             /\ next.writes > now.writes =>
                   /\ now.pc = "acreate" /\ now.acreates = 1
                   /\ next.outcome # "provider_error"
                   /\ now.async_calls = 0
                   /\ now.conversation_id \in DOMAIN history'
                   /\ history'[now.conversation_id] =
                         now.request.messages \o <<Message("assistant", next.content)>>
             /\ next.async_calls > now.async_calls =>
                   /\ next.writes = 1
                   /\ next.pc = "async_call"
                   /\ now.conversation_id \in DOMAIN history'
                   /\ history'[now.conversation_id] =
                         now.request.messages \o <<Message("assistant", next.content)>>
             /\ (now.pc = "async_call" /\ next # now) =>
                   /\ history' = history
                   /\ next.pc = "done"]_vars
    /\ [][history' # history => \E t \in Tasks : ProviderReturns(t)]_vars

\* a turn went through all the steps: provider, history write, service call
C16_Witness ==
    \E t \in Tasks :
        /\ task[t].pc = "done"
        /\ task[t].outcome = "dispatched"
        /\ task[t].acreates = 1 /\ task[t].writes = 1 /\ task[t].async_calls = 1
        /\ task[t].result.conversation_id = task[t].request.user

\* C17: in every reachable state every stored session history has even
\* length of at least 4, starts with the user seed prompt followed by the
\* assistant acknowledgement, strictly alternates the roles user and
\* assistant, and ends with an assistant message.
C17_HistoryShape ==
    \A id \in DOMAIN history :
        LET h == history[id]
        IN /\ Len(h) >= 4
           /\ Len(h) % 2 = 0
           /\ h[1].role = "user" /\ h[1].content \in RenderedPrompts
           /\ h[2] = Message("assistant", GotIt)
           /\ \A i \in 1..Len(h) :
                 h[i].role = (IF i % 2 = 1 THEN "user" ELSE "assistant")
           /\ h[Len(h)].role = "assistant"

\* a session that went through two turns: the first ended with the
\* exception of a command without data, the second with a reply that did
\* not parse
C17_Witness ==
    \E id \in DOMAIN history :
        /\ Len(history[id]) = 6
        /\ history[id][4].content = ReplyCommandNoData
        /\ history[id][6].content = ReplyNotJson

\* a first turn of a session that ended in a render failure or a provider
\* failure
FailedFirstTurn(t) ==
    /\ task[t].pc = "done"
    /\ task[t].outcome \in {"template_error", "provider_error"}
    /\ task[t].input_id # task[t].conversation_id

\* C18: a session enters the history map only at the history write after a
\* successful provider call.  The id returned by a first turn that ended in
\* a render failure or a provider failure is no key of the map; a key is
\* added to the map only by the step in which a provider call returns
\* content, and it is the id of that turn; and a turn that presents an id
\* that is no key of the map runs under a new id, different from the one
\* presented, renders the template again and, if it renders, sends the
\* seed prompt and the acknowledgement again.
C18_SessionEntersAtWrite ==
    /\ [](\A t \in Tasks :
             FailedFirstTurn(t) =>
                 /\ task[t].result.conversation_id = task[t].conversation_id
                 /\ task[t].result.conversation_id \notin DOMAIN history)
    /\ [][/\ \A id \in DOMAIN history' \ DOMAIN history :
                \E t \in Tasks : ProviderReturns(t) /\ task[t].conversation_id = id
          /\ \A t \in Tasks :
                (Begins(t) /\ task'[t].input_id \notin DOMAIN history) =>
                    LET prompt == async_render(Configured(CONF_PROMPT, DEFAULT_PROMPT))
                    IN /\ task'[t].conversation_id # task'[t].input_id
                       /\ task'[t].conversation_id = ulid(nextUlid)
                       /\ task'[t].conversation_id \notin DOMAIN history
                       /\ prompt.ok =>
                             /\ task'[t].renders = 1
                             /\ task'[t].pc = "acreate"
                             /\ Len(task'[t].request.messages) = 3
                             /\ task'[t].request.messages[1] = Message("user", prompt.v)
                             /\ task'[t].request.messages[2] = Message("assistant", GotIt)
                             /\ task'[t].request.user = task'[t].conversation_id
                       /\ ~prompt.ok => task'[t].outcome = "template_error"]_vars

\* the first turn failed and returned the first id, nothing is stored, and
\* the second turn, which presented that id, is at the provider under the
\* second id with the seed
C18_Witness ==
    /\ turns = 2
    /\ history = << >>
    /\ task[1].pc = "acreate"
    /\ task[2].pc = "idle"
    /\ task[1].input_id = ulid(1)
    /\ task[1].conversation_id = ulid(2)
    /\ task[1].renders = 1
    /\ Len(task[1].request.messages) = 3

\* C19: a turn on a session id that is in the history map never calls the
\* template renderer.  Such a turn begins at the provider, whatever the
\* stored template, with the stored first message as the first message of
\* its request; no later step of a turn renders; and no step, a store of
\* the options flow included, changes the first message of a stored
\* history.
C19_KnownSessionNeverRenders ==
    [][/\ \A t \in Tasks :
             /\ (Begins(t) /\ task'[t].input_id \in DOMAIN history) =>
                   /\ task'[t].renders = 0
                   /\ task'[t].outcome # "template_error"
                   /\ task'[t].pc = "acreate"
                   /\ task'[t].request.messages[1] = history[task'[t].input_id][1]
             /\ task[t].pc # "idle" => task'[t].renders <= task[t].renders
             /\ task'[t].outcome = "template_error" =>
                   task'[t].input_id # task'[t].conversation_id
       /\ \A id \in DOMAIN history :
             /\ id \in DOMAIN history'
             /\ history'[id][1] = history[id][1]]_vars

\* a session seeded from the default template, a template stored since that
\* does not render, and a turn on that session at the provider
C19_Witness ==
    \E t \in Tasks :
        /\ task[t].pc = "acreate"
        /\ task[t].input_id \in DOMAIN history
        /\ task[t].renders = 0
        /\ CONF_PROMPT \in DOMAIN options
        /\ options[CONF_PROMPT] = BrokenPrompt
        /\ task[t].request.messages[1].content = <<"DEFAULT_PROMPT ", location_name>>
        /\ history[task[t].input_id][1] = task[t].request.messages[1]

====
